---- MODULE Spec2Model ----
(***************************************************************************)
(* Real-time messaging and presence engine of the chat backend:            *)
(* the Socket.IO connection manager (userSockets registry, room joins,     *)
(* presence updates), the socket message handlers (message:private,        *)
(* message:group, message:read), the REST message controller (sendMessage, *)
(* markAsRead) and the REST status operations.                             *)
(*                                                                         *)
(* Every `await` of a handler is a point where other handlers may run, so  *)
(* a handler is a sequence of steps; one step runs from one await to the   *)
(* next.  A store operation (findById, save, updateMany, findByIdAndUpdate)*)
(* is applied atomically by the store at the step that issues it.          *)
(***************************************************************************)
EXTENDS Integers, Sequences, FiniteSets, Bags, TLC

\* ------------------------------------------------------------------------
\* The universe the model is checked on.
\* ------------------------------------------------------------------------
Users == {"u1", "u2", "u3"}

\* Connections (socket ids).  s1 and s2 are two devices of u1, s3 is u2's.
Sockets == {"s1", "s2", "s3"}

\* One two-party conversation and one group.
Convs == {"c1"}

Groups == {"g1"}

RoomIds == Convs \cup Groups

\* Handler slots: at most Cardinality(Procs) message handlers are in flight.
Procs == {1, 2}

\* Bounds of the exploration.
MaxMsgs == 2

MaxReads == 2

MaxStatusOps == 2

NoRoom == "-"

\* socket.user.id, fixed by the handshake for the life of the connection.
Owner(s) == IF s = "s3" THEN "u2" ELSE "u1"

\* user.friends of the durable user record (symmetric friend graph).
Friends(u) == IF u = "u1" THEN {"u2"} ELSE IF u = "u2" THEN {"u1"} ELSE {}

\* participants / members of the stored rooms.
InitMembers(r) == IF r = "c1" THEN {"u1", "u2"} ELSE {"u1", "u2", "u3"}

RoomKind(r) == IF r \in Convs THEN "conversation" ELSE "group"

VARIABLES
    messages,       \* Message collection, in creation order; the index is the id
    rooms,          \* Conversation and Group documents by id
    notifications,  \* Notification collection: a bag of [recipient, msg]
    handlers,       \* per slot: the handler running in it, its locals and its pc
    reply,          \* the outcome of the handler that answered last
    nReads,         \* number of mark-read requests started so far
    msgNew,         \* per connection: the message:new events received, in order
    sockState,      \* per connection: "free" (not yet opened), "live", "closed"
    sockRooms,      \* per connection: the Socket.IO rooms it has joined
    connPc,         \* per connection: position of its io.on('connection') handler
    discPc,         \* per connection: position of its 'disconnect' handler
    userSockets,    \* the connection registry: user id -> set of socket ids
    status,         \* User.status of the durable user record
    statusEmits,    \* bag of user:status events [to, about, status, by, kind]
    firstAdmit,     \* connections admitted while their user had no live one
    nStatusOps,     \* number of explicit status operations so far
    lastSeen,       \* User.lastSeen of the durable user record: a timestamp,
                    \* kept as the operation that wrote it
    isVerified      \* User.isVerified of the durable user record

storeVars == <<messages, rooms, notifications>>

msgVars == <<handlers, reply, nReads, msgNew>>

sockVars == <<sockState, sockRooms, connPc, discPc, userSockets>>

presVars == <<status, statusEmits, firstAdmit, nStatusOps, lastSeen, isVerified>>

vars == <<messages, rooms, notifications, handlers, reply, nReads, msgNew,
          sockState, sockRooms, connPc, discPc, userSockets,
          status, statusEmits, firstAdmit, nStatusOps, lastSeen, isVerified>>

\* ------------------------------------------------------------------------
\* Helpers over the store.
\* ------------------------------------------------------------------------
MsgIds == 1..Len(messages)

\* Map.get(key) || 0 on an unreadCount map
GetCount(m, k) == IF k \in DOMAIN m THEN m[k] ELSE 0

\* SetCount that leaves the map as it is.
SetCountKeep(m, k, v) == m

\* Map.set(key, value) / $set of unreadCount.<key>
SetCount(m, k, v) == [x \in (DOMAIN m) \cup {k} |-> IF x = k THEN v ELSE m[x]]

\* array.includes(x) on a readBy array
Includes(seq, x) == \E i \in 1..Len(seq) : seq[i] = x

\* number of occurrences of x in an array
Occurrences(seq, x) == Cardinality({i \in 1..Len(seq) : seq[i] = x})

Live(s) == sockState[s] = "live"

\* io.to(room): the live connections that have joined the room
InRoom(room) == {t \in Sockets : Live(t) /\ room \in sockRooms[t]}

\* ------------------------------------------------------------------------
\* Handler slots.  A slot holds the locals of a handler between its awaits:
\*   kind    "private", "group" (socket sends), "rest" (REST sendMessage),
\*           "read" (socket message:read), "delete" (REST deleteMessage),
\*           or the name of a group or conversation operation
\*   user    socket.user.id / req.user.id
\*   room    the conversation or group the request names
\*   recips  recipients (participants or members other than the sender)
\*   snap    unreadCount of the room document the handler holds
\*   msg     _id of the message the handler created
\*   ids     messageIds of a mark-read
\*   alone   no other handler on the same room was in flight with this one
\* ------------------------------------------------------------------------
IdleHandler ==
    [kind |-> "none", user |-> "-", sock |-> "-", room |-> NoRoom, pc |-> "idle",
     recips |-> {}, snap |-> <<>>, msg |-> 0, ids |-> {}, alone |-> TRUE]

InFlight(p) == handlers[p].pc # "idle"

\* A new handler takes the lowest idle slot.
NextSlot(p) == ~InFlight(p) /\ \A q \in Procs : ~InFlight(q) => p <= q

\* the number of sends that have been accepted and not yet persisted
PendingCreates == Cardinality({p \in Procs : handlers[p].pc = "create"})

CanSend == Len(messages) + PendingCreates < MaxMsgs

\* Put handler record rec in slot p.  Handlers already in flight on the same
\* room are no longer alone with it, nor is the new one (bookkeeping only).
Begin(p, rec) ==
    LET busy == {q \in Procs \ {p} : InFlight(q) /\ handlers[q].room = rec.room}
    IN  handlers' = [q \in Procs |->
                       IF q = p THEN [rec EXCEPT !.alone = (busy = {})]
                       ELSE IF q \in busy THEN [handlers[q] EXCEPT !.alone = FALSE]
                       ELSE handlers[q]]

\* The handler in slot p returns: the slot is idle again.
End(p) == handlers' = [handlers EXCEPT ![p] = IdleHandler]

\* What the requester is answered: socket.emit('error') or an HTTP error status
\* ("invalid" 400, "notFound" 404, "forbidden" 403), success ("ok"), or nothing
\* at all ("silent").
ErrorOutcomes == {"invalid", "notFound", "forbidden", "failed"}

\* An HTTP response.
Answer(kind, outcome) ==
    reply' = [kind |-> kind, outcome |-> outcome, by |-> "-", errors |-> {},
              room |-> NoRoom, to |-> {}]

\* What the handler of an event of connection s sends back at its end: for
\* an error outcome socket.emit('error') to s alone (errors).
SocketAnswer(s, kind, outcome) ==
    reply' = [kind |-> kind, outcome |-> outcome, by |-> s,
              errors |-> IF outcome \in ErrorOutcomes THEN {s} ELSE {},
              room |-> NoRoom, to |-> {}]

\* The handler of an event of connection s ends with an event emitted to a
\* Socket.IO room, which the connections in to receive.
Broadcast(s, kind, room, to) ==
    reply' = [kind |-> kind, outcome |-> "ok", by |-> s, errors |-> {},
              room |-> room, to |-> to]

\* ------------------------------------------------------------------------
\* Message fan-out: socket message:private / message:group and REST
\* POST /api/messages.
\* ------------------------------------------------------------------------

\* new Message({sender, content, conversation|group, readBy: [sender]})
\* NewMessage with nobody in readBy.
NewMessageUnread(u, r) ==
    [sender |-> u, room |-> r, readBy |-> <<>>, isDeleted |-> FALSE,
     content |-> "text", attachments |-> <<>>]

\* (content is valid text; attachments || [], a send carries none here)
NewMessage(u, r) ==
    [sender |-> u, room |-> r, readBy |-> <<u>>, isDeleted |-> FALSE,
     content |-> "text", attachments |-> <<>>]

\* IncrementUnread with the sender counted among the recipients.
IncrementUnreadAll(stored, snap, recips) ==
    [x \in (DOMAIN stored) \cup (DOMAIN snap) \cup recips |-> GetCount(snap, x) + 1]

\* recipients.forEach: unreadCount.set(id, (unreadCount.get(id) || 0) + 1) on the
\* document the handler holds (snap), written by save() as a $set of each
\* modified key into the stored map.
IncrementUnread(stored, snap, recips) ==
    [x \in (DOMAIN stored) \cup recips |->
        IF x \in recips THEN GetCount(snap, x) + 1 ELSE stored[x]]

\* conversation.save() / group.save() after lastMessage and unreadCount were set
SaveRoomDoc(doc, h) ==
    [doc EXCEPT !.lastMessage = h.msg,
                !.unreadCount = IncrementUnread(doc.unreadCount, h.snap, h.recips)]

\* io.to(room).emit('message:new', ...): appended to each receiving connection
DeliverNew(inbox, room, id) ==
    [t \in Sockets |-> IF t \in InRoom(room) THEN Append(inbox[t], id) ELSE inbox[t]]

\* SocketSendCheck without the participants / members check.
SocketSendCheckOpen(u, k, r, hasContent) ==
    IF r = NoRoom \/ ~hasContent THEN "invalid"
    ELSE IF RoomKind(r) # (IF k = "private" THEN "conversation" ELSE "group")
         THEN "notFound"
    ELSE "ok"

\* What message:private (k = "private") / message:group (k = "group") answers
\* before it creates anything: validation, findById, membership.
SocketSendCheck(u, k, r, hasContent) ==
    IF r = NoRoom \/ ~hasContent THEN "invalid"
    ELSE IF RoomKind(r) # (IF k = "private" THEN "conversation" ELSE "group")
         THEN "notFound"
    ELSE IF u \notin rooms[r].members THEN "forbidden"
    ELSE "ok"

\* The socket send handler from the event to its first store read.
SocketSend(p, s, k, r, hasContent) ==
    /\ NextSlot(p) /\ Live(s) /\ connPc[s] = "ready" /\ CanSend
    /\ LET u == Owner(s)
           check == SocketSendCheck(u, k, r, hasContent)
       IN  IF check # "ok"
           THEN /\ SocketAnswer(s, k, check)
                /\ UNCHANGED handlers
           ELSE /\ Begin(p, [IdleHandler EXCEPT !.kind = k, !.user = u, !.sock = s,
                                                !.room = r,
                                                !.pc = "create",
                                                !.snap = rooms[r].unreadCount,
                                                !.recips = rooms[r].members \ {u}])
                /\ UNCHANGED reply
    /\ UNCHANGED <<storeVars, nReads, msgNew, sockVars, presVars>>

\* the either-or check switched off
ExactlyOneRoomOff(cid, gid) == TRUE

\* sendMessage: (conversationId && groupId) || (!conversationId && !groupId)
\* is a 400
ExactlyOneRoom(cid, gid) ==
    ~((cid # NoRoom /\ gid # NoRoom) \/ (cid = NoRoom /\ gid = NoRoom))

\* What REST POST /api/messages answers before it creates anything:
\* RestSendCheck without the validation of content.
RestSendCheckAnyContent(u, cid, gid, hasContent) ==
    IF ~ExactlyOneRoom(cid, gid) THEN "invalid"
    ELSE IF cid # NoRoom /\ cid \notin DOMAIN rooms THEN "notFound"
    ELSE IF cid # NoRoom /\ u \notin rooms[cid].members THEN "forbidden"
    ELSE IF gid # NoRoom /\ gid \notin DOMAIN rooms THEN "notFound"
    ELSE IF gid # NoRoom /\ u \notin rooms[gid].members THEN "forbidden"
    ELSE IF cid = NoRoom /\ gid = NoRoom THEN "failed"
    ELSE "ok"

\* messageValidation (content), the either-or check of conversationId (cid) and
\* groupId (gid), findById and membership of the conversation, then of the
\* group (targetModel is the group when both are handled, and undefined, a
\* TypeError, when neither is).
RestSendCheck(u, cid, gid, hasContent) ==
    IF ~hasContent THEN "invalid"
    ELSE IF ~ExactlyOneRoom(cid, gid) THEN "invalid"
    ELSE IF cid # NoRoom /\ cid \notin DOMAIN rooms THEN "notFound"
    ELSE IF cid # NoRoom /\ u \notin rooms[cid].members THEN "forbidden"
    ELSE IF gid # NoRoom /\ gid \notin DOMAIN rooms THEN "notFound"
    ELSE IF gid # NoRoom /\ u \notin rooms[gid].members THEN "forbidden"
    ELSE IF cid = NoRoom /\ gid = NoRoom THEN "failed"
    ELSE "ok"

\* REST sendMessage from the request to the membership check.
RestSend(p, u, cid, gid, hasContent) ==
    /\ NextSlot(p) /\ CanSend
    /\ LET r == IF gid # NoRoom THEN gid ELSE cid
           check == RestSendCheck(u, cid, gid, hasContent)
       IN  IF check # "ok"
           THEN /\ Answer("rest", check)
                /\ UNCHANGED handlers
           ELSE /\ Begin(p, [IdleHandler EXCEPT !.kind = "rest", !.user = u,
                                                !.room = r, !.pc = "create",
                                                !.recips = rooms[r].members \ {u}])
                /\ UNCHANGED reply
    /\ UNCHANGED <<storeVars, nReads, msgNew, sockVars, presVars>>

\* message.save() / Message.create(): the message is persisted
CreateMessage(p) ==
    /\ handlers[p].pc = "create"
    /\ messages' = Append(messages, NewMessage(handlers[p].user, handlers[p].room))
    /\ handlers' = [handlers EXCEPT
                      ![p].msg = Len(messages) + 1,
                      ![p].pc = IF handlers[p].kind = "rest" THEN "reread" ELSE "saveRoom"]
    /\ UNCHANGED <<rooms, notifications, reply, nReads, msgNew, sockVars, presVars>>

\* REST sendMessage: the second findById of the room, after Message.create
RestReread(p) ==
    /\ handlers[p].pc = "reread"
    /\ handlers' = [handlers EXCEPT ![p].snap = rooms[handlers[p].room].unreadCount,
                                    ![p].pc = "saveRoom"]
    /\ UNCHANGED <<storeVars, reply, nReads, msgNew, sockVars, presVars>>

\* conversation.save() / group.save()
SaveRoom(p) ==
    /\ handlers[p].pc = "saveRoom"
    /\ rooms' = [rooms EXCEPT ![handlers[p].room] = SaveRoomDoc(@, handlers[p])]
    /\ handlers' = [handlers EXCEPT
                      ![p].pc = IF handlers[p].kind = "rest" THEN "notify" ELSE "emit"]
    /\ UNCHANGED <<messages, notifications, reply, nReads, msgNew, sockVars, presVars>>

\* message.populate(sender), then io.to(room).emit('message:new') (socket only)
EmitNew(p) ==
    /\ handlers[p].pc = "emit"
    /\ msgNew' = DeliverNew(msgNew, handlers[p].room, handlers[p].msg)
    /\ handlers' = [handlers EXCEPT ![p].pc = "notify"]
    /\ UNCHANGED <<storeVars, reply, nReads, sockVars, presVars>>

\* NewNotifications with no notification created.
NoNotifications(h) == EmptyBag

\* one Notification per recipient
NewNotifications(h) == SetToBag({[recipient |-> x, msg |-> h.msg] : x \in h.recips})

\* the loop creating (and, on the socket, pushing) the notifications; the
\* handler ends after it (REST: res.status(201))
Notify(p) ==
    /\ handlers[p].pc = "notify"
    /\ notifications' = notifications (+) NewNotifications(handlers[p])
    /\ IF handlers[p].kind = "rest"
       THEN Answer("rest", "ok")
       ELSE SocketAnswer(handlers[p].sock, handlers[p].kind, "ok")
    /\ End(p)
    /\ UNCHANGED <<messages, rooms, nReads, msgNew, sockVars, presVars>>

\* notification.save() / Notification.create throws for one recipient (a store
\* failure), after the notifications of the recipients in done were created:
\* the loop is left, the socket handler's catch emits 'error' ("Failed to send
\* message") to the sender, the REST request is answered with the error.
NotifyFail(p) ==
    /\ handlers[p].pc = "notify"
    /\ \E done \in SUBSET handlers[p].recips :
          /\ done # handlers[p].recips
          /\ notifications' = notifications
                (+) NewNotifications([handlers[p] EXCEPT !.recips = done])
    /\ IF handlers[p].kind = "rest"
       THEN Answer("rest", "failed")
       ELSE SocketAnswer(handlers[p].sock, handlers[p].kind, "failed")
    /\ End(p)
    /\ UNCHANGED <<messages, rooms, nReads, msgNew, sockVars, presVars>>

\* conversation.save() / group.save() throws (a store failure): the message is
\* already persisted, the room keeps its old lastMessage and unread counters,
\* and control goes straight to the socket handler's catch ('error', "Failed
\* to send message") or to the REST error response; the save is not repeated.
SaveRoomFail(p) ==
    /\ handlers[p].pc = "saveRoom"
    /\ IF handlers[p].kind = "rest"
       THEN Answer("rest", "failed")
       ELSE SocketAnswer(handlers[p].sock, handlers[p].kind, "failed")
    /\ End(p)
    /\ UNCHANGED <<storeVars, nReads, msgNew, sockVars, presVars>>

\* ------------------------------------------------------------------------
\* Read state: socket message:read and REST PUT /api/messages/read.
\* ------------------------------------------------------------------------

\* $addToSet: { readBy: user }
AddToSet(arr, x) == IF Includes(arr, x) THEN arr ELSE Append(arr, x)

\* UpdateManyRead as a $push to every named message, without the readBy filter.
UpdateManyPush(msgs, u, ids) ==
    [i \in 1..Len(msgs) |->
        IF i \in ids THEN [msgs[i] EXCEPT !.readBy = Append(@, u)] ELSE msgs[i]]

\* Message.updateMany({_id: {$in: ids}, readBy: {$ne: user}},
\*                    {$addToSet: {readBy: user}})
UpdateManyRead(msgs, u, ids) ==
    [i \in 1..Len(msgs) |->
        IF i \in ids /\ ~Includes(msgs[i].readBy, u)
        THEN [msgs[i] EXCEPT !.readBy = AddToSet(@, u)]
        ELSE msgs[i]]

\* The messageIds of a mark-read request: ids of stored messages (given says
\* whether the request carries a messageIds array at all).
ReadInputs == SUBSET MsgIds

\* socket.on('message:read') up to the updateMany.  r is the conversationId or
\* groupId of the event (NoRoom when the event names no room).
SocketRead(p, s, given, ids, r) ==
    /\ NextSlot(p) /\ Live(s) /\ connPc[s] = "ready" /\ nReads < MaxReads
    /\ nReads' = nReads + 1
    /\ LET u == Owner(s)
       IN  IF ~given \/ ids = {}
           THEN /\ SocketAnswer(s, "read", "silent")
                /\ UNCHANGED <<messages, handlers>>
           ELSE /\ messages' = UpdateManyRead(messages, u, ids)
                /\ IF r = NoRoom
                   THEN /\ SocketAnswer(s, "read", "ok")
                        /\ UNCHANGED handlers
                   ELSE /\ Begin(p, [IdleHandler EXCEPT !.kind = "read", !.user = u,
                                                        !.sock = s,
                                                        !.room = r, !.ids = ids,
                                                        !.pc = "zero"])
                        /\ UNCHANGED reply
    /\ UNCHANGED <<rooms, notifications, msgNew, sockVars, presVars>>

\* io.to(room).emit('message:read', ...): the connections that receive it
ReceiptTargets(s, room) == InRoom(room)

\* findByIdAndUpdate(room, {$set: {unreadCount.<user>: 0}}), then the
\* message:read receipt to the room
ReadZero(p) ==
    /\ handlers[p].pc = "zero"
    /\ rooms' = [rooms EXCEPT ![handlers[p].room].unreadCount =
                                  SetCount(@, handlers[p].user, 0)]
    /\ Broadcast(handlers[p].sock, "read", handlers[p].room,
                 ReceiptTargets(handlers[p].sock, handlers[p].room))
    /\ End(p)
    /\ UNCHANGED <<messages, notifications, nReads, msgNew, sockVars, presVars>>

\* REST markAsRead
RestMarkRead(u, given, ids) ==
    /\ nReads < MaxReads
    /\ nReads' = nReads + 1
    /\ IF ~given
       THEN /\ Answer("restRead", "invalid")
            /\ UNCHANGED messages
       ELSE /\ messages' = UpdateManyRead(messages, u, ids)
            /\ Answer("restRead", "ok")
    /\ UNCHANGED <<rooms, notifications, handlers, msgNew, sockVars, presVars>>

\* ------------------------------------------------------------------------
\* Typing indicators: socket typing:start / typing:stop.
\* ------------------------------------------------------------------------

\* socket.to(room).emit('typing:update', ...): every connection in the room
\* but the emitting one
TypingTargets(s, room) == InRoom(room) \ {s}

\* socket.on('typing:start') (isTyping) / socket.on('typing:stop'): a
\* synchronous handler; with neither conversationId nor groupId it does
\* nothing.
Typing(s, isTyping, r) ==
    /\ Live(s) /\ connPc[s] = "ready"
    /\ LET kind == IF isTyping THEN "typing:start" ELSE "typing:stop"
       IN  IF r = NoRoom
           THEN SocketAnswer(s, kind, "silent")
           ELSE Broadcast(s, kind, r, TypingTargets(s, r))
    /\ UNCHANGED <<storeVars, handlers, nReads, msgNew, sockVars, presVars>>

\* ------------------------------------------------------------------------
\* Initial states and specifications.
\* ------------------------------------------------------------------------

\* Conversation.create({participants, unreadCount: new Map([[participantId, 0]])})
\* for c1 (created by u1 with u2); Group.create leaves unreadCount at its
\* default {}.
\* Group.create({creator, members: [...new Set([creator, ...members])],
\* admins: [creator]}) with the pre-save hooks of a new group; v is the
\* document's version key __v.
CreateGroupDoc(creator, members) ==
    [members |-> {creator} \cup members,
     admins |-> {creator},
     creator |-> creator,
     unreadCount |-> [x \in {} |-> 0],
     lastMessage |-> 0,
     isActive |-> TRUE,
     v |-> 0]

InitRooms ==
    [r \in RoomIds |->
        IF r \in Groups
        THEN CreateGroupDoc("u1", InitMembers(r))
        ELSE [members |-> InitMembers(r),
              participants |-> <<"u1", "u2">>,
              unreadCount |-> [x \in {"u2"} |-> 0],
              lastMessage |-> 0,
              isActive |-> TRUE]]

\* the rooms a connection of user u joins in io.on('connection')
RoomsFor(u) == {u} \cup {r \in RoomIds : u \in rooms[r].members /\ rooms[r].isActive}

InitStore ==
    /\ messages = <<>>
    /\ rooms = InitRooms
    /\ notifications = EmptyBag

InitHandlers ==
    /\ handlers = [p \in Procs |-> IdleHandler]
    /\ reply = [kind |-> "none", outcome |-> "none", by |-> "-", errors |-> {},
                room |-> NoRoom, to |-> {}]
    /\ nReads = 0
    /\ msgNew = [s \in Sockets |-> <<>>]

\* All three connections admitted, their connection handlers completed.
InitConnected ==
    /\ sockState = [s \in Sockets |-> "live"]
    /\ sockRooms = [s \in Sockets |-> RoomsFor(Owner(s))]
    /\ connPc = [s \in Sockets |-> "ready"]
    /\ discPc = [s \in Sockets |-> "none"]
    /\ userSockets = [u \in Users |-> {s \in Sockets : Owner(s) = u}]
    /\ status = [u \in Users |-> IF u = "u3" THEN "offline" ELSE "online"]
    /\ statusEmits = EmptyBag
    /\ firstAdmit = {}
    /\ nStatusOps = 0
    /\ lastSeen = [u \in Users |-> IF u = "u3" THEN "created" ELSE "connection"]
    /\ isVerified = [u \in Users |-> TRUE]

RoomRefs == RoomIds \cup {NoRoom}

\* The steps of the send handlers.
SendSteps ==
    \/ \E p \in Procs, s \in Sockets, k \in {"private", "group"}, r \in RoomRefs,
          c \in BOOLEAN : SocketSend(p, s, k, r, c)
    \/ \E p \in Procs, u \in Users, cid \in Convs \cup {NoRoom},
          gid \in Groups \cup {NoRoom}, c \in BOOLEAN : RestSend(p, u, cid, gid, c)
    \/ \E p \in Procs : CreateMessage(p)
    \/ \E p \in Procs : RestReread(p)
    \/ \E p \in Procs : SaveRoom(p)
    \/ \E p \in Procs : EmitNew(p)
    \/ \E p \in Procs : Notify(p)

\* Sends only: every connection is up, no message is read.
InitSend == InitStore /\ InitHandlers /\ InitConnected

SpecSend == InitSend /\ [][SendSteps]_vars

\* ------------------------------------------------------------------------
\* Connections and presence: io.on('connection'), socket.on('disconnect'),
\* status:change, and the REST operations that write User.status.
\* ------------------------------------------------------------------------
Statuses == {"online", "offline", "away", "busy"}

\* EmitStatus with no friend notified.
EmitStatusNobody(u, st, s, kind) == EmptyBag

\* friends.forEach(friend => io.to(friend._id).emit('user:status', ...)): one
\* emit per friend, received by each live connection in that friend's room.
\* An emit is recorded with to = the friend, a reception with to = the
\* connection.
EmitStatus(u, st, s, kind) ==
    SetToBag({[to |-> f, about |-> u, status |-> st, by |-> s, kind |-> kind] :
                 f \in Friends(u)})
    (+) SetToBag({[to |-> t, about |-> u, status |-> st, by |-> s, kind |-> kind] :
                 t \in UNION {InRoom(f) : f \in Friends(u)}})

\* A client connects and passes io.use: the synchronous head of the connection
\* handler joins the user's own room and adds the socket to userSockets.
Connect(s) ==
    /\ sockState[s] = "free"
    /\ sockState' = [sockState EXCEPT ![s] = "live"]
    /\ sockRooms' = [sockRooms EXCEPT ![s] = {Owner(s)}]
    /\ userSockets' = [userSockets EXCEPT ![Owner(s)] = @ \cup {s}]
    /\ connPc' = [connPc EXCEPT ![s] = "setOnline"]
    /\ firstAdmit' = IF \E t \in Sockets : Owner(t) = Owner(s) /\ Live(t)
                     THEN firstAdmit ELSE firstAdmit \cup {s}
    /\ UNCHANGED <<storeVars, msgVars, discPc, status, statusEmits, nStatusOps,
                   lastSeen, isVerified>>

\* User.findByIdAndUpdate(id, {status: 'online', lastSeen})
ConnSetOnline(s) ==
    /\ connPc[s] = "setOnline"
    /\ status' = [status EXCEPT ![Owner(s)] = "online"]
    /\ lastSeen' = [lastSeen EXCEPT ![Owner(s)] = "connection"]
    /\ connPc' = [connPc EXCEPT ![s] = "friends"]
    /\ UNCHANGED <<storeVars, msgVars, sockState, sockRooms, discPc, userSockets,
                   statusEmits, firstAdmit, isVerified, nStatusOps>>

\* User.findById(id).populate('friends'), then user:status online to friends
ConnEmitOnline(s) ==
    /\ connPc[s] = "friends"
    /\ statusEmits' = statusEmits (+) EmitStatus(Owner(s), "online", s, "connect")
    /\ connPc' = [connPc EXCEPT ![s] = "convs"]
    /\ UNCHANGED <<storeVars, msgVars, sockState, sockRooms, discPc, userSockets,
                   status, firstAdmit, isVerified, nStatusOps, lastSeen>>

\* Conversation.find({participants: id, isActive: true}), then socket.join each
ConnJoinConvs(s) ==
    /\ connPc[s] = "convs"
    /\ sockRooms' = [sockRooms EXCEPT ![s] = @ \cup (RoomsFor(Owner(s)) \cap Convs)]
    /\ connPc' = [connPc EXCEPT ![s] = "groups"]
    /\ UNCHANGED <<storeVars, msgVars, sockState, discPc, userSockets, presVars>>

\* Group.find({members: id, isActive: true}), socket.join each, then the
\* message, presence and disconnect listeners are registered
ConnJoinGroups(s) ==
    /\ connPc[s] = "groups"
    /\ sockRooms' = [sockRooms EXCEPT ![s] = @ \cup (RoomsFor(Owner(s)) \cap Groups)]
    /\ connPc' = [connPc EXCEPT ![s] = "ready"]
    /\ UNCHANGED <<storeVars, msgVars, sockState, discPc, userSockets, presVars>>

\* The registry after the synchronous part of the disconnect listener:
\* userSockets.get(user).delete(socket.id), and the key deleted when the set
\* is empty.
RegistryDelete(reg, s) == [reg EXCEPT ![Owner(s)] = @ \ {s}]

\* The connection closes.  Socket.IO takes the socket out of all its rooms and
\* emits 'disconnect' on it: the listener runs if the connection handler has
\* registered it already, otherwise the event has no listener and is lost.
Disconnect(s) ==
    /\ Live(s)
    /\ sockState' = [sockState EXCEPT ![s] = "closed"]
    /\ sockRooms' = [sockRooms EXCEPT ![s] = {}]
    /\ IF connPc[s] = "ready"
       THEN IF userSockets[Owner(s)] # {}
            THEN /\ userSockets' = RegistryDelete(userSockets, s)
                 /\ discPc' = [discPc EXCEPT ![s] =
                       IF RegistryDelete(userSockets, s)[Owner(s)] = {}
                       THEN "setOffline" ELSE "done"]
            ELSE /\ discPc' = [discPc EXCEPT ![s] = "done"]
                 /\ UNCHANGED userSockets
       ELSE /\ discPc' = [discPc EXCEPT ![s] = "lost"]
            /\ UNCHANGED userSockets
    /\ UNCHANGED <<storeVars, msgVars, connPc, presVars>>

\* User.findByIdAndUpdate(id, {status: 'offline', lastSeen})
DiscSetOffline(s) ==
    /\ discPc[s] = "setOffline"
    /\ status' = [status EXCEPT ![Owner(s)] = "offline"]
    /\ lastSeen' = [lastSeen EXCEPT ![Owner(s)] = "disconnect"]
    /\ discPc' = [discPc EXCEPT ![s] = "emitOffline"]
    /\ UNCHANGED <<storeVars, msgVars, sockState, sockRooms, connPc, userSockets,
                   statusEmits, firstAdmit, isVerified, nStatusOps>>

\* user:status offline to the friends
DiscEmitOffline(s) ==
    /\ discPc[s] = "emitOffline"
    /\ statusEmits' = statusEmits (+) EmitStatus(Owner(s), "offline", s, "disconnect")
    /\ discPc' = [discPc EXCEPT ![s] = "done"]
    /\ UNCHANGED <<storeVars, msgVars, sockState, sockRooms, connPc, userSockets,
                   status, firstAdmit, isVerified, nStatusOps, lastSeen>>

\* socket.on('status:change'): the status is validated against the four
\* values, written, and announced to the friends
StatusChange(s, st) ==
    /\ Live(s) /\ connPc[s] = "ready" /\ nStatusOps < MaxStatusOps
    /\ nStatusOps' = nStatusOps + 1
    /\ IF st \notin Statuses
       THEN /\ SocketAnswer(s, "status", "invalid")
            /\ UNCHANGED <<status, statusEmits, lastSeen>>
       ELSE /\ status' = [status EXCEPT ![Owner(s)] = st]
            /\ lastSeen' = [lastSeen EXCEPT ![Owner(s)] = "status:change"]
            /\ statusEmits' = statusEmits (+) EmitStatus(Owner(s), st, s, "change")
            /\ SocketAnswer(s, "status", "ok")
    /\ UNCHANGED <<storeVars, handlers, nReads, msgNew, sockVars, firstAdmit, isVerified>>

\* REST PUT /api/users/status (updateStatus)
RestUpdateStatus(u, st) ==
    /\ nStatusOps < MaxStatusOps
    /\ nStatusOps' = nStatusOps + 1
    /\ IF st \notin Statuses
       THEN /\ Answer("restStatus", "invalid")
            /\ UNCHANGED <<status, lastSeen>>
       ELSE /\ status' = [status EXCEPT ![u] = st]
            /\ lastSeen' = [lastSeen EXCEPT ![u] = "updateStatus"]
            /\ Answer("restStatus", "ok")
    /\ UNCHANGED <<storeVars, handlers, nReads, msgNew, sockVars, statusEmits,
                   firstAdmit, isVerified>>

\* REST POST /api/auth/login (with the right password): refused for an
\* unverified user, else user.status = 'online'; user.save()
RestLogin(u) ==
    /\ nStatusOps < MaxStatusOps
    /\ nStatusOps' = nStatusOps + 1
    /\ IF ~isVerified[u]
       THEN /\ Answer("login", "forbidden")
            /\ UNCHANGED <<status, lastSeen>>
       ELSE /\ status' = [status EXCEPT ![u] = "online"]
            /\ lastSeen' = [lastSeen EXCEPT ![u] = "login"]
            /\ Answer("login", "ok")
    /\ UNCHANGED <<storeVars, handlers, nReads, msgNew, sockVars, statusEmits,
                   firstAdmit, isVerified>>

\* REST POST /api/auth/logout: req.user.status = 'offline'; req.user.save()
RestLogout(u) ==
    /\ nStatusOps < MaxStatusOps
    /\ nStatusOps' = nStatusOps + 1
    /\ status' = [status EXCEPT ![u] = "offline"]
    /\ lastSeen' = [lastSeen EXCEPT ![u] = "logout"]
    /\ Answer("logout", "ok")
    /\ UNCHANGED <<storeVars, handlers, nReads, msgNew, sockVars, statusEmits,
                   firstAdmit, isVerified>>

\* the value of a request field that was not given
Absent == "-"

\* REST PUT /api/users/profile (updateProfile): if (status) user.status =
\* status; user.save().  save() validates status against the schema's enum
\* and writes the modified paths only; lastSeen is not among them.
RestUpdateProfile(u, st) ==
    /\ nStatusOps < MaxStatusOps
    /\ nStatusOps' = nStatusOps + 1
    /\ IF st = Absent
       THEN /\ Answer("profile", "ok")
            /\ UNCHANGED status
       ELSE IF st \notin Statuses
       THEN /\ Answer("profile", "invalid")
            /\ UNCHANGED status
       ELSE /\ status' = [status EXCEPT ![u] = st]
            /\ Answer("profile", "ok")
    /\ UNCHANGED <<storeVars, handlers, nReads, msgNew, sockVars, statusEmits,
                   firstAdmit, isVerified, lastSeen>>

\* PresencePing that also puts the user online.
PresencePingOnline(s) ==
    /\ Live(s) /\ connPc[s] = "ready"
    /\ lastSeen' = [lastSeen EXCEPT ![Owner(s)] = "presence:ping"]
    /\ status' = [status EXCEPT ![Owner(s)] = "online"]
    /\ UNCHANGED <<storeVars, msgVars, sockVars, statusEmits, firstAdmit, isVerified,
                   nStatusOps>>

\* socket.on('presence:ping'): User.findByIdAndUpdate(id, {lastSeen: new
\* Date()}); nothing is emitted, an error is only logged.
PresencePing(s) ==
    /\ Live(s) /\ connPc[s] = "ready"
    /\ lastSeen' = [lastSeen EXCEPT ![Owner(s)] = "presence:ping"]
    /\ UNCHANGED <<storeVars, msgVars, sockVars, status, statusEmits, firstAdmit, isVerified,
                   nStatusOps>>

\* socket.on('status:get'): the status:list reply for the requested users
StatusList(ids) == [u \in ids |-> status[u]]

\* No connection has been opened yet; every user is offline.
InitDisconnected ==
    /\ sockState = [s \in Sockets |-> "free"]
    /\ sockRooms = [s \in Sockets |-> {}]
    /\ connPc = [s \in Sockets |-> "none"]
    /\ discPc = [s \in Sockets |-> "none"]
    /\ userSockets = [u \in Users |-> {}]
    /\ status = [u \in Users |-> "offline"]
    /\ statusEmits = EmptyBag
    /\ firstAdmit = {}
    /\ nStatusOps = 0
    /\ lastSeen = [u \in Users |-> "created"]
    /\ isVerified = [u \in Users |-> TRUE]

\* The steps of the connection and disconnect handlers of the connections S.
ConnStepsOf(S) ==
    \/ \E s \in S : Connect(s)
    \/ \E s \in S : ConnSetOnline(s)
    \/ \E s \in S : ConnEmitOnline(s)
    \/ \E s \in S : ConnJoinConvs(s)
    \/ \E s \in S : ConnJoinGroups(s)
    \/ \E s \in S : Disconnect(s)
    \/ \E s \in S : DiscSetOffline(s)
    \/ \E s \in S : DiscEmitOffline(s)

ConnSteps == ConnStepsOf(Sockets)

\* The explicit status operations.
StatusSteps ==
    \/ \E s \in Sockets, st \in Statuses \cup {"invisible"} : StatusChange(s, st)
    \/ \E u \in Users, st \in Statuses \cup {"invisible"} : RestUpdateStatus(u, st)
    \/ \E u \in Users : RestLogin(u)
    \/ \E u \in Users : RestLogout(u)

InitConn == InitStore /\ InitHandlers /\ InitDisconnected

\* Connects and disconnects only.
SpecConn == InitConn /\ [][ConnSteps]_vars

\* the two devices of u1
Devices == {"s1", "s2"}

NextPresence == ConnStepsOf(Devices) \/ StatusSteps

\* Connects and disconnects of one user's devices, and explicit status
\* operations of every user.
SpecPresence == InitConn /\ [][NextPresence]_vars

\* Sequential sends, then mark-reads that may overlap each other: a send starts
\* only when no handler is in flight, a mark-read only when no send is.
NoSendInFlight == \A p \in Procs : handlers[p].kind \in {"none", "read"}

NextRead ==
    \/ \E p \in Procs, s \in Sockets, k \in {"private", "group"}, r \in RoomIds :
          (\A q \in Procs : ~InFlight(q)) /\ SocketSend(p, s, k, r, TRUE)
    \/ \E p \in Procs : CreateMessage(p)
    \/ \E p \in Procs : SaveRoom(p)
    \/ \E p \in Procs : EmitNew(p)
    \/ \E p \in Procs : Notify(p)
    \/ \E p \in Procs, s \in Sockets, given \in BOOLEAN, ids \in ReadInputs,
          r \in RoomRefs : NoSendInFlight /\ SocketRead(p, s, given, ids, r)
    \/ \E p \in Procs : ReadZero(p)
    \/ \E u \in Users, given \in BOOLEAN, ids \in ReadInputs :
          NoSendInFlight /\ RestMarkRead(u, given, ids)

SpecRead == InitSend /\ [][NextRead]_vars

\* u1's devices are connected, u2 has no connection.
InitOffline ==
    /\ InitStore
    /\ InitHandlers
    /\ sockState = [s \in Sockets |-> IF Owner(s) = "u1" THEN "live" ELSE "free"]
    /\ sockRooms = [s \in Sockets |-> IF Owner(s) = "u1" THEN RoomsFor("u1") ELSE {}]
    /\ connPc = [s \in Sockets |-> IF Owner(s) = "u1" THEN "ready" ELSE "none"]
    /\ discPc = [s \in Sockets |-> "none"]
    /\ userSockets = [u \in Users |-> {s \in Sockets : Owner(s) = u /\ u = "u1"}]
    /\ status = [u \in Users |-> IF u = "u1" THEN "online" ELSE "offline"]
    /\ statusEmits = EmptyBag
    /\ firstAdmit = {}
    /\ nStatusOps = 0
    /\ lastSeen = [u \in Users |-> IF u = "u1" THEN "connection" ELSE "created"]
    /\ isVerified = [u \in Users |-> TRUE]

\* Other users send, one message at a time, while u2 has no connection; then
\* u2 connects.
NextOffline ==
    \/ \E p \in Procs, s \in Sockets, k \in {"private", "group"}, r \in RoomIds :
          /\ \A q \in Procs : ~InFlight(q)
          /\ sockState["s3"] = "free"
          /\ SocketSend(p, s, k, r, TRUE)
    \/ \E p \in Procs, u \in Users \ {"u2"}, r \in RoomIds :
          /\ \A q \in Procs : ~InFlight(q)
          /\ sockState["s3"] = "free"
          /\ RestSend(p, u, IF r \in Convs THEN r ELSE NoRoom,
                            IF r \in Groups THEN r ELSE NoRoom, TRUE)
    \/ \E p \in Procs : CreateMessage(p)
    \/ \E p \in Procs : RestReread(p)
    \/ \E p \in Procs : SaveRoom(p)
    \/ \E p \in Procs : EmitNew(p)
    \/ \E p \in Procs : Notify(p)
    \/ (\A q \in Procs : ~InFlight(q)) /\ messages # <<>> /\ Connect("s3")
    \/ ConnSetOnline("s3")
    \/ ConnEmitOnline("s3")
    \/ ConnJoinConvs("s3")
    \/ ConnJoinGroups("s3")

SpecOffline == InitOffline /\ [][NextOffline]_vars

\* ------------------------------------------------------------------------
\* Group management: REST /api/groups/:id/...  Each handler reads the group,
\* checks and changes the document in memory, and saves it.
\* ------------------------------------------------------------------------
MaxGroupOps == 3

GroupKinds == {"addMembers", "removeMember", "makeAdmin", "removeAdmin", "leaveGroup"}

\* the handlers whose save sends $push (the others $set whole arrays)
PushKinds == {"addMembers", "makeAdmin"}

GroupOpsInFlight == Cardinality({p \in Procs : handlers[p].kind \in GroupKinds})

CanGroupOp(g) == rooms[g].v + GroupOpsInFlight < MaxGroupOps

\* the admins hook switched off
AdminsHookOff(doc) == TRUE

\* GroupSchema.pre('save'): admins.length === 0 is an error
AdminsHook(doc) == doc.admins # {}

AddMembersCheck(doc, u, new) ==
    IF new = {} THEN "invalid"
    ELSE IF u \notin doc.admins THEN "forbidden"
    ELSE IF new \ doc.members = {} THEN "invalid"
    ELSE "ok"

AddMembersDoc(doc, new) == [doc EXCEPT !.members = @ \cup new]

RemoveMemberCheck(doc, u, target) ==
    IF target \notin doc.members THEN "invalid"
    ELSE IF u \notin doc.admins /\ u # target THEN "forbidden"
    ELSE IF doc.creator = target /\ u # target THEN "forbidden"
    ELSE IF u \in doc.admins /\ doc.admins = {target} /\ Cardinality(doc.members) > 1
         THEN "invalid"
    ELSE "ok"

RemoveMemberDoc(doc, target) ==
    [doc EXCEPT !.members = @ \ {target},
                !.admins = @ \ {target},
                !.isActive = IF doc.members \ {target} = {} THEN FALSE ELSE @]

MakeAdminCheck(doc, u, target) ==
    IF target \in doc.admins THEN "invalid"
    ELSE IF u \notin doc.admins THEN "forbidden"
    ELSE IF target \notin doc.members THEN "invalid"
    ELSE "ok"

MakeAdminDoc(doc, target) == [doc EXCEPT !.admins = @ \cup {target}]

RemoveAdminCheck(doc, u, target) ==
    IF u \notin doc.admins THEN "forbidden"
    ELSE IF doc.creator = target THEN "forbidden"
    ELSE IF target \notin doc.admins THEN "invalid"
    ELSE IF u = target THEN "invalid"
    ELSE "ok"

RemoveAdminDoc(doc, target) == [doc EXCEPT !.admins = @ \ {target}]

LeaveGroupCheck(doc, u) == IF u \notin doc.members THEN "invalid" ELSE "ok"

\* leaveGroup's changes to the document.  Only when the leaver is the recorded
\* creator and the only admin is another member (members.find: the first
\* other member, any of them here) made admin and creator.
LeaveGroupDocs(doc, u) ==
    LET handOver == doc.creator = u /\ doc.admins = {u} /\ Cardinality(doc.members) > 1
        left(d) == [d EXCEPT !.members = @ \ {u},
                             !.admins = @ \ {u},
                             !.isActive = IF d.members \ {u} = {} THEN FALSE ELSE @]
    IN  IF handOver
        THEN {left([doc EXCEPT !.admins = @ \cup {n}, !.creator = n]) :
                 n \in doc.members \ {u}}
        ELSE {left(doc)}

\* A group handler is answered at once when its checks fail; otherwise it
\* holds the changed document (doc) and the one it read (base) until its save.
GroupRequest(p, kind, u, g, outcome, docs) ==
    /\ NextSlot(p)
    /\ CanGroupOp(g)
    /\ IF outcome # "ok"
       THEN /\ Answer(kind, outcome)
            /\ UNCHANGED handlers
       ELSE /\ \E d \in docs :
                 Begin(p, [IdleHandler EXCEPT !.kind = kind, !.user = u, !.room = g,
                                              !.pc = "saveGroup",
                                              !.snap = [doc |-> d, base |-> rooms[g]]])
            /\ UNCHANGED reply
    /\ UNCHANGED <<storeVars, nReads, msgNew, sockVars, presVars>>

AddMembers(p, u, g, new) ==
    GroupRequest(p, "addMembers", u, g, AddMembersCheck(rooms[g], u, new),
                 {AddMembersDoc(rooms[g], new)})

RemoveMember(p, u, g, target) ==
    GroupRequest(p, "removeMember", u, g, RemoveMemberCheck(rooms[g], u, target),
                 {RemoveMemberDoc(rooms[g], target)})

MakeAdmin(p, u, g, target) ==
    GroupRequest(p, "makeAdmin", u, g, MakeAdminCheck(rooms[g], u, target),
                 {MakeAdminDoc(rooms[g], target)})

RemoveAdmin(p, u, g, target) ==
    GroupRequest(p, "removeAdmin", u, g, RemoveAdminCheck(rooms[g], u, target),
                 {RemoveAdminDoc(rooms[g], target)})

LeaveGroup(p, u, g) ==
    GroupRequest(p, "leaveGroup", u, g, LeaveGroupCheck(rooms[g], u),
                 LeaveGroupDocs(rooms[g], u))

\* What group.save() writes: $push of the pushed elements, $set of the
\* reassigned paths, and the version key incremented.
WriteGroup(stored, h) ==
    LET d == h.snap.doc
        b == h.snap.base
    IN  IF h.kind \in PushKinds
        THEN [stored EXCEPT !.members = @ \cup (d.members \ b.members),
                            !.admins = @ \cup (d.admins \ b.admins),
                            !.v = @ + 1]
        ELSE [stored EXCEPT !.members = IF d.members # b.members THEN d.members ELSE @,
                            !.admins = IF d.admins # b.admins THEN d.admins ELSE @,
                            !.creator = IF d.creator # b.creator THEN d.creator ELSE @,
                            !.isActive = IF d.isActive # b.isActive THEN d.isActive ELSE @,
                            !.v = @ + 1]

\* the group_invitation notifications of addMembers (msg 0: no message)
Invitations(h) ==
    IF h.kind = "addMembers"
    THEN SetToBag({[recipient |-> x, msg |-> 0] :
                      x \in h.snap.doc.members \ h.snap.base.members})
    ELSE EmptyBag

\* await group.save(): the pre-save hook rejects a document without admins;
\* a $set of an array on a document that was saved since it was read either
\* fails on the version key or overwrites, depending on the Mongoose version.
SaveGroup(p) ==
    LET h == handlers[p]
        stale == rooms[h.room].v # h.snap.base.v /\ h.kind \notin PushKinds
    IN  /\ h.pc = "saveGroup"
        /\ \/ /\ AdminsHook(h.snap.doc)
              /\ rooms' = [rooms EXCEPT ![h.room] = WriteGroup(@, h)]
              /\ notifications' = notifications (+) Invitations(h)
              /\ Answer(h.kind, "ok")
           \/ /\ ~AdminsHook(h.snap.doc) \/ stale
              /\ Answer(h.kind, "failed")
              /\ UNCHANGED <<rooms, notifications>>
        /\ End(p)
        /\ UNCHANGED <<messages, nReads, msgNew, sockVars, presVars>>

\* A group just created by any user with any members.
InitGroup ==
    /\ messages = <<>>
    /\ notifications = EmptyBag
    /\ \E creator \in Users, others \in SUBSET Users :
          rooms = [InitRooms EXCEPT !["g1"] = CreateGroupDoc(creator, others)]
    /\ InitHandlers
    /\ InitDisconnected

NextGroup ==
    \/ \E p \in Procs, u \in Users, new \in SUBSET Users : AddMembers(p, u, "g1", new)
    \/ \E p \in Procs, u, target \in Users : RemoveMember(p, u, "g1", target)
    \/ \E p \in Procs, u, target \in Users : MakeAdmin(p, u, "g1", target)
    \/ \E p \in Procs, u, target \in Users : RemoveAdmin(p, u, "g1", target)
    \/ \E p \in Procs, u \in Users : LeaveGroup(p, u, "g1")
    \/ \E p \in Procs : SaveGroup(p)

SpecGroup == InitGroup /\ [][NextGroup]_vars

\* ------------------------------------------------------------------------
\* Conversations: REST POST /api/conversations and DELETE /api/conversations/:id.
\* ------------------------------------------------------------------------
MaxNewConvs == 2

\* the ids the store gives to new conversations, in this order
ConvIdPool == <<"c2", "c3", "c4", "c5">>

\* the stored conversations
ConvIds == DOMAIN rooms \ Groups

NewConvId == ConvIdPool[Cardinality(ConvIds)]

\* a participantId for which User.findById finds nobody
NoUser == "nobody"

PendingConvs == Cardinality({p \in Procs : handlers[p].kind = "createConversation"})

CanCreateConv == Cardinality(ConvIds) - Cardinality(Convs) + PendingConvs < MaxNewConvs

\* Conversation.findOne({participants: {$all: [u, other], $size: 2}, isActive: true})
ExistingConversations(u, other) ==
    {c \in ConvIds : /\ {u, other} \subseteq rooms[c].members
                     /\ Len(rooms[c].participants) = 2
                     /\ rooms[c].isActive}

\* ConversationSchema.pre('save'): a new document must have participants.length 2
ParticipantsHook(doc) == Len(doc.participants) = 2

\* Conversation.create({participants: [u, other], unreadCount: new Map([[other, 0]])})
NewConversation(u, other) ==
    [members |-> {u, other},
     participants |-> <<u, other>>,
     unreadCount |-> [x \in {other} |-> 0],
     lastMessage |-> 0,
     isActive |-> TRUE]

\* createConversation up to await User.findById(participantId)
CreateConversation(p, u, other) ==
    /\ NextSlot(p)
    /\ CanCreateConv
    /\ IF other = NoUser
       THEN /\ Answer("createConversation", "notFound")
            /\ UNCHANGED handlers
       ELSE /\ Begin(p, [IdleHandler EXCEPT !.kind = "createConversation", !.user = u,
                                            !.pc = "findExisting",
                                            !.snap = [participantId |-> other]])
            /\ UNCHANGED reply
    /\ UNCHANGED <<storeVars, nReads, msgNew, sockVars, presVars>>

\* await Conversation.findOne(...): the existing conversation is returned
FindExisting(p) ==
    LET h == handlers[p]
    IN  /\ h.pc = "findExisting"
        /\ IF ExistingConversations(h.user, h.snap.participantId) # {}
           THEN /\ Answer("createConversation", "existing")
                /\ End(p)
           ELSE /\ handlers' = [handlers EXCEPT ![p].pc = "createConv"]
                /\ UNCHANGED reply
        /\ UNCHANGED <<storeVars, nReads, msgNew, sockVars, presVars>>

\* await Conversation.create(...) and the 201 response
InsertConversation(p) ==
    LET h == handlers[p]
        doc == NewConversation(h.user, h.snap.participantId)
    IN  /\ h.pc = "createConv"
        /\ IF ParticipantsHook(doc)
           THEN /\ rooms' = [c \in DOMAIN rooms \cup {NewConvId} |->
                                IF c = NewConvId THEN doc ELSE rooms[c]]
                /\ Answer("createConversation", "ok")
           ELSE /\ Answer("createConversation", "failed")
                /\ UNCHANGED rooms
        /\ End(p)
        /\ UNCHANGED <<messages, notifications, nReads, msgNew, sockVars, presVars>>

\* deleteConversation up to await Conversation.findById
DeleteConversation(p, u, c) ==
    /\ NextSlot(p)
    /\ IF c \notin ConvIds
       THEN /\ Answer("deleteConversation", "notFound")
            /\ UNCHANGED handlers
       ELSE IF u \notin rooms[c].members
       THEN /\ Answer("deleteConversation", "forbidden")
            /\ UNCHANGED handlers
       ELSE /\ Begin(p, [IdleHandler EXCEPT !.kind = "deleteConversation", !.user = u,
                                            !.room = c, !.pc = "saveConv"])
            /\ UNCHANGED reply
    /\ UNCHANGED <<storeVars, nReads, msgNew, sockVars, presVars>>

\* conversation.isActive = false; await conversation.save()
SaveConversation(p) ==
    /\ handlers[p].pc = "saveConv"
    /\ rooms' = [rooms EXCEPT ![handlers[p].room].isActive = FALSE]
    /\ Answer("deleteConversation", "ok")
    /\ End(p)
    /\ UNCHANGED <<messages, notifications, nReads, msgNew, sockVars, presVars>>

NextConversation ==
    \/ \E p \in Procs, u \in Users, other \in Users \cup {NoUser} :
          CreateConversation(p, u, other)
    \/ \E p \in Procs : FindExisting(p)
    \/ \E p \in Procs : InsertConversation(p)
    \/ \E p \in Procs, u \in Users, c \in Convs \cup {ConvIdPool[1], ConvIdPool[2]} :
          DeleteConversation(p, u, c)
    \/ \E p \in Procs : SaveConversation(p)

SpecConversation == InitConn /\ [][NextConversation]_vars

\* u2 has been removed from the group and connected afterwards: u2 is no
\* member of g1, u3 no participant of c1.
InitOutsider ==
    /\ messages = <<>>
    /\ notifications = EmptyBag
    /\ rooms = [InitRooms EXCEPT !["g1"] = RemoveMemberDoc(@, "u2")]
    /\ InitHandlers
    /\ InitConnected

SpecOutsider == InitOutsider /\ [][SendSteps]_vars

\* Typing events while connections close.
NextTyping ==
    \/ \E s \in Sockets, isTyping \in BOOLEAN, r \in RoomRefs : Typing(s, isTyping, r)
    \/ \E s \in Sockets : Disconnect(s)
    \/ \E s \in Sockets : DiscSetOffline(s)
    \/ \E s \in Sockets : DiscEmitOffline(s)

SpecTyping == InitSend /\ [][NextTyping]_vars

\* an event is handled when no handler is in flight; a status change is the
\* last event handled
OneAtATime == nStatusOps = 0 /\ \A q \in Procs : ~InFlight(q)

\* The inbound socket events, one at a time: sends, mark-reads, typing, and
\* a status change at the end.
NextEvents ==
    \/ \E p \in Procs, s \in Sockets, k \in {"private", "group"}, r \in RoomRefs,
          c \in BOOLEAN : OneAtATime /\ SocketSend(p, s, k, r, c)
    \/ \E p \in Procs : CreateMessage(p)
    \/ \E p \in Procs : SaveRoom(p)
    \/ \E p \in Procs : EmitNew(p)
    \/ \E p \in Procs : Notify(p)
    \/ \E p \in Procs, s \in Sockets, given \in BOOLEAN, ids \in ReadInputs,
          r \in RoomRefs : OneAtATime /\ SocketRead(p, s, given, ids, r)
    \/ \E p \in Procs : ReadZero(p)
    \/ \E s \in Sockets, isTyping \in BOOLEAN, r \in RoomRefs :
          OneAtATime /\ Typing(s, isTyping, r)
    \/ \E s \in Sockets, st \in Statuses \cup {"invisible"} :
          OneAtATime /\ StatusChange(s, st)

SpecEvents == InitSend /\ [][NextEvents]_vars

\* Sends during which the creation of a notification may fail.
NextNotifyFail ==
    \/ SendSteps
    \/ \E p \in Procs : NotifyFail(p)

SpecNotifyFail == InitSend /\ [][NextNotifyFail]_vars

\* ------------------------------------------------------------------------
\* Sends whose room update may fail.
\* ------------------------------------------------------------------------
NextRoomFail ==
    \/ SendSteps
    \/ \E p \in Procs : SaveRoomFail(p)

SpecRoomFail == InitSend /\ [][NextRoomFail]_vars

\* ------------------------------------------------------------------------
\* A connected user is added to a group, and messages are sent to the group.
\* u2 is connected and not a member of g1; every operation starts when no
\* other is in flight.
\* ------------------------------------------------------------------------
NextJoin ==
    \/ \E p \in Procs, u \in Users, new \in SUBSET Users :
          (\A q \in Procs : ~InFlight(q)) /\ AddMembers(p, u, "g1", new)
    \/ \E p \in Procs : SaveGroup(p)
    \/ \E p \in Procs, s \in Sockets, k \in {"private", "group"}, r \in RoomRefs,
          c \in BOOLEAN : (\A q \in Procs : ~InFlight(q)) /\ SocketSend(p, s, k, r, c)
    \/ \E p \in Procs : CreateMessage(p)
    \/ \E p \in Procs : SaveRoom(p)
    \/ \E p \in Procs : EmitNew(p)
    \/ \E p \in Procs : Notify(p)

SpecJoin == InitOutsider /\ [][NextJoin]_vars

\* ------------------------------------------------------------------------
\* Status operations and pings of connected and unconnected users: u1 and u2
\* are connected, u3 has no connection; connections may close.
\* ------------------------------------------------------------------------
NextStatus ==
    \/ StatusSteps
    \/ \E u \in Users, st \in Statuses \cup {"invisible", Absent} :
          RestUpdateProfile(u, st)
    \/ \E s \in Sockets : PresencePing(s)
    \/ \E s \in Sockets : Disconnect(s)
    \/ \E s \in Sockets : DiscSetOffline(s)
    \/ \E s \in Sockets : DiscEmitOffline(s)

SpecStatus == InitSend /\ [][NextStatus]_vars

\* ------------------------------------------------------------------------
\* Message history: REST GET /api/messages (getMessages).
\* ------------------------------------------------------------------------

\* router.get('/', getMessages): the path has no :id segment, so req.params
\* has no id, whatever the query string carries.
RouteParamId(path) == IF path = "/" THEN Absent ELSE path

\* getMessages up to the membership check; id is req.params.id, type is
\* req.query.type.  Model.findById(undefined) finds nothing.
GetMessagesCheck(u, type, id) ==
    IF type \notin {"conversation", "group"} THEN "invalid"
    ELSE IF id \notin DOMAIN rooms \/ RoomKind(id) # type THEN "notFound"
    ELSE IF u \notin rooms[id].members THEN "forbidden"
    ELSE "ok"

\* GET /api/messages?type=..&id=qid by user u.  After the check the handler
\* sets unreadCount[u] to 0, saves the room and adds u to readBy of the room's
\* messages from others; these writes are one step here.
RestGetMessages(u, type, qid) ==
    LET id == RouteParamId("/")
        check == GetMessagesCheck(u, type, id)
        fromOthers == {i \in MsgIds : messages[i].room = id /\ messages[i].sender # u}
    IN  /\ Answer("getMessages", check)
        /\ IF check = "ok"
           THEN /\ rooms' = [rooms EXCEPT ![id].unreadCount = SetCount(@, u, 0)]
                /\ messages' = UpdateManyRead(messages, u, fromOthers)
           ELSE UNCHANGED <<rooms, messages>>
        /\ UNCHANGED <<notifications, handlers, nReads, msgNew, sockVars, presVars>>

\* Socket sends, one at a time, and requests for the message history.
NextHistory ==
    \/ \E p \in Procs, s \in Sockets, k \in {"private", "group"}, r \in RoomRefs,
          c \in BOOLEAN : (\A q \in Procs : ~InFlight(q)) /\ SocketSend(p, s, k, r, c)
    \/ \E p \in Procs : CreateMessage(p)
    \/ \E p \in Procs : SaveRoom(p)
    \/ \E p \in Procs : EmitNew(p)
    \/ \E p \in Procs : Notify(p)
    \/ \E u \in Users, type \in {"conversation", "group", "other"}, qid \in RoomRefs :
          RestGetMessages(u, type, qid)

SpecHistory == InitSend /\ [][NextHistory]_vars

\* ------------------------------------------------------------------------
\* Sends that name exactly one room, with or without content.
\* ------------------------------------------------------------------------
NextContent ==
    \/ \E p \in Procs, s \in Sockets, k \in {"private", "group"}, r \in RoomIds,
          c \in BOOLEAN : SocketSend(p, s, k, r, c)
    \/ \E p \in Procs, u \in Users, r \in RoomIds, c \in BOOLEAN :
          RestSend(p, u, IF r \in Convs THEN r ELSE NoRoom,
                         IF r \in Groups THEN r ELSE NoRoom, c)
    \/ \E p \in Procs : CreateMessage(p)
    \/ \E p \in Procs : RestReread(p)
    \/ \E p \in Procs : SaveRoom(p)
    \/ \E p \in Procs : EmitNew(p)
    \/ \E p \in Procs : Notify(p)

SpecContent == InitSend /\ [][NextContent]_vars

\* ------------------------------------------------------------------------
\* Deleting messages: REST DELETE /api/messages/:id (deleteMessage).
\* ------------------------------------------------------------------------

\* the content a deleted message is given
Placeholder == "This message has been deleted"

\* DeleteCheck without the ownership check.
DeleteCheckAnyone(u, i) ==
    IF i \notin MsgIds THEN "notFound" ELSE "ok"

\* Message.findById, then message.sender.toString() !== req.user.id
DeleteCheck(u, i) ==
    IF i \notin MsgIds THEN "notFound"
    ELSE IF messages[i].sender # u THEN "forbidden"
    ELSE "ok"

\* deleteMessage from the request to the ownership check; the handler holds
\* the message document it loaded
RestDelete(p, u, i) ==
    /\ NextSlot(p)
    /\ LET check == DeleteCheck(u, i)
       IN  IF check # "ok"
           THEN /\ Answer("delete", check)
                /\ UNCHANGED handlers
           ELSE /\ Begin(p, [IdleHandler EXCEPT !.kind = "delete", !.user = u,
                                                !.room = messages[i].room,
                                                !.pc = "saveDelete",
                                                !.snap = [id |-> i, doc |-> messages[i]]])
                /\ UNCHANGED reply
    /\ UNCHANGED <<storeVars, nReads, msgNew, sockVars, presVars>>

\* the soft delete: save() writes the three modified paths
DeletedDoc(stored) ==
    [stored EXCEPT !.isDeleted = TRUE, !.content = Placeholder, !.attachments = <<>>]

\* message.save().  attachments is assigned as a whole array, so the save
\* carries the version of the loaded document: when another delete was saved
\* in between it fails with a VersionError or overwrites, depending on the
\* Mongoose version.
SaveDelete(p) ==
    LET h == handlers[p]
        i == h.snap.id
        stale == messages[i].isDeleted # h.snap.doc.isDeleted
    IN  /\ h.pc = "saveDelete"
        /\ \/ /\ messages' = [messages EXCEPT ![i] = DeletedDoc(@)]
              /\ Answer("delete", "ok")
           \/ /\ stale
              /\ Answer("delete", "failed")
              /\ UNCHANGED messages
        /\ End(p)
        /\ UNCHANGED <<rooms, notifications, nReads, msgNew, sockVars, presVars>>

\* u1 has sent message 1, with an attachment, to c1 through REST (sent is
\* the handler record of that completed send).
InitDelete ==
    LET sent == [IdleHandler EXCEPT !.kind = "rest", !.user = "u1", !.room = "c1",
                                    !.recips = {"u2"},
                                    !.snap = InitRooms["c1"].unreadCount,
                                    !.msg = 1]
    IN  /\ messages = <<[NewMessage("u1", "c1") EXCEPT !.attachments = <<"file">>]>>
        /\ rooms = [InitRooms EXCEPT !["c1"] = SaveRoomDoc(@, sent)]
        /\ notifications = NewNotifications(sent)
        /\ InitHandlers
        /\ InitConnected

\* Deletes that may overlap, mark-reads, and socket sends one at a time.
NextDelete ==
    \/ \E p \in Procs, u \in Users, i \in 1..MaxMsgs : RestDelete(p, u, i)
    \/ \E p \in Procs : SaveDelete(p)
    \/ \E u \in Users, given \in BOOLEAN, ids \in ReadInputs : RestMarkRead(u, given, ids)
    \/ \E p \in Procs, s \in Sockets, k \in {"private", "group"}, r \in RoomIds :
          (\A q \in Procs : ~InFlight(q)) /\ SocketSend(p, s, k, r, TRUE)
    \/ \E p \in Procs : CreateMessage(p)
    \/ \E p \in Procs : SaveRoom(p)
    \/ \E p \in Procs : EmitNew(p)
    \/ \E p \in Procs : Notify(p)

SpecDelete == InitDelete /\ [][NextDelete]_vars

\* ------------------------------------------------------------------------
\* Events of a connected user about a room the user does not belong to: c1 is
\* the conversation of u1 and u3, and u2 (connection s3) is no participant.
\* ------------------------------------------------------------------------
InitStranger ==
    /\ messages = <<>>
    /\ notifications = EmptyBag
    /\ rooms = [InitRooms EXCEPT !["c1"] =
                  [@ EXCEPT !.members = {"u1", "u3"},
                            !.participants = <<"u1", "u3">>,
                            !.unreadCount = [x \in {"u3"} |-> 0]]]
    /\ InitHandlers
    /\ InitConnected

NextStranger ==
    \/ NextRead
    \/ \E s \in Sockets, isTyping \in BOOLEAN, r \in RoomRefs :
          (\A q \in Procs : ~InFlight(q)) /\ Typing(s, isTyping, r)

SpecStranger == InitStranger /\ [][NextStranger]_vars

\* ------------------------------------------------------------------------
\* Members are removed from, or leave, a group while their connections stay
\* up, and messages and typing events are sent to the group; every operation
\* starts when no other is in flight.
\* ------------------------------------------------------------------------
NextLeave ==
    \/ \E p \in Procs, u, target \in Users :
          (\A q \in Procs : ~InFlight(q)) /\ RemoveMember(p, u, "g1", target)
    \/ \E p \in Procs, u \in Users :
          (\A q \in Procs : ~InFlight(q)) /\ LeaveGroup(p, u, "g1")
    \/ \E p \in Procs : SaveGroup(p)
    \/ \E p \in Procs, s \in Sockets, k \in {"private", "group"}, r \in RoomIds :
          (\A q \in Procs : ~InFlight(q)) /\ SocketSend(p, s, k, r, TRUE)
    \/ \E p \in Procs : CreateMessage(p)
    \/ \E p \in Procs : SaveRoom(p)
    \/ \E p \in Procs : EmitNew(p)
    \/ \E p \in Procs : Notify(p)
    \/ \E s \in Sockets, isTyping \in BOOLEAN, r \in RoomIds :
          (\A q \in Procs : ~InFlight(q)) /\ Typing(s, isTyping, r)

SpecLeave == InitSend /\ [][NextLeave]_vars

\* ------------------------------------------------------------------------
\* Group operations one after the other: a request starts when no other is
\* in flight.
\* ------------------------------------------------------------------------
NextGroupSeq ==
    \/ \E p \in Procs, u \in Users, new \in SUBSET Users :
          (\A q \in Procs : ~InFlight(q)) /\ AddMembers(p, u, "g1", new)
    \/ \E p \in Procs, u, target \in Users :
          (\A q \in Procs : ~InFlight(q)) /\ RemoveMember(p, u, "g1", target)
    \/ \E p \in Procs, u, target \in Users :
          (\A q \in Procs : ~InFlight(q)) /\ MakeAdmin(p, u, "g1", target)
    \/ \E p \in Procs, u, target \in Users :
          (\A q \in Procs : ~InFlight(q)) /\ RemoveAdmin(p, u, "g1", target)
    \/ \E p \in Procs, u \in Users :
          (\A q \in Procs : ~InFlight(q)) /\ LeaveGroup(p, u, "g1")
    \/ \E p \in Procs : SaveGroup(p)

SpecGroupSeq == InitGroup /\ [][NextGroupSeq]_vars

\* ------------------------------------------------------------------------
\* A conversation is soft-deleted, and messages are sent; every operation
\* starts when no other is in flight.
\* ------------------------------------------------------------------------
NextArchive ==
    \/ \E p \in Procs, u \in Users, c \in Convs :
          (\A q \in Procs : ~InFlight(q)) /\ DeleteConversation(p, u, c)
    \/ \E p \in Procs : SaveConversation(p)
    \/ \E p \in Procs, s \in Sockets, k \in {"private", "group"}, r \in RoomIds :
          (\A q \in Procs : ~InFlight(q)) /\ SocketSend(p, s, k, r, TRUE)
    \/ \E p \in Procs, u \in Users, r \in RoomIds :
          /\ \A q \in Procs : ~InFlight(q)
          /\ RestSend(p, u, IF r \in Convs THEN r ELSE NoRoom,
                            IF r \in Groups THEN r ELSE NoRoom, TRUE)
    \/ \E p \in Procs : CreateMessage(p)
    \/ \E p \in Procs : RestReread(p)
    \/ \E p \in Procs : SaveRoom(p)
    \/ \E p \in Procs : EmitNew(p)
    \/ \E p \in Procs : Notify(p)

SpecArchive == InitSend /\ [][NextArchive]_vars

\* ------------------------------------------------------------------------
\* Authentication: the socket handshake (io.use) and the REST protect
\* middleware.  A client presents no token, a token that jwt.verify rejects,
\* or a token that verifies and names an existing user.
\* ------------------------------------------------------------------------
Tokens == {"none", "invalid", "valid"}

\* io.use: token missing, jwt.verify, User.findById; socket.user is set
HandshakeCheck(token, u) ==
    IF token = "none" THEN "refused"
    ELSE IF token = "invalid" THEN "refused"
    ELSE IF u \notin Users THEN "refused"
    ELSE "ok"

\* protect: token missing (401), jwt.verify (401), User.findById (404),
\* user.isVerified (403)
ProtectCheck(token, u) ==
    IF token = "none" THEN "unauthorized"
    ELSE IF token = "invalid" THEN "unauthorized"
    ELSE IF u \notin Users THEN "notFound"
    ELSE IF ~isVerified[u] THEN "forbidden"
    ELSE "ok"

\* A client opens connection s with the token: next(new Error(...)) refuses
\* it, next() hands it to io.on('connection').
Handshake(s, token) ==
    /\ sockState[s] = "free"
    /\ IF HandshakeCheck(token, Owner(s)) = "ok"
       THEN Connect(s)
       ELSE /\ SocketAnswer(s, "handshake", "refused")
            /\ UNCHANGED <<storeVars, handlers, nReads, msgNew, sockVars, presVars>>

\* GET /api/auth/me behind protect: getMe reads the user and changes nothing
RestGetMe(u, token) ==
    /\ Answer("getMe", ProtectCheck(token, u))
    /\ UNCHANGED <<storeVars, handlers, nReads, msgNew, sockVars, presVars>>

\* GET /api/auth/verify-email/:token with the user's verification token
VerifyEmail(u) ==
    /\ ~isVerified[u]
    /\ isVerified' = [isVerified EXCEPT ![u] = TRUE]
    /\ Answer("verifyEmail", "ok")
    /\ UNCHANGED <<storeVars, handlers, nReads, msgNew, sockVars, status, statusEmits,
                   firstAdmit, nStatusOps, lastSeen>>

\* Users registered and not yet verified; no connection has been opened.
InitAuth ==
    /\ InitStore
    /\ InitHandlers
    /\ sockState = [s \in Sockets |-> "free"]
    /\ sockRooms = [s \in Sockets |-> {}]
    /\ connPc = [s \in Sockets |-> "none"]
    /\ discPc = [s \in Sockets |-> "none"]
    /\ userSockets = [u \in Users |-> {}]
    /\ status = [u \in Users |-> "offline"]
    /\ statusEmits = EmptyBag
    /\ firstAdmit = {}
    /\ nStatusOps = 0
    /\ lastSeen = [u \in Users |-> "created"]
    /\ isVerified = [u \in Users |-> FALSE]

NextAuth ==
    \/ \E s \in Sockets, token \in Tokens : Handshake(s, token)
    \/ \E s \in Sockets : ConnSetOnline(s)
    \/ \E s \in Sockets : ConnEmitOnline(s)
    \/ \E s \in Sockets : ConnJoinConvs(s)
    \/ \E s \in Sockets : ConnJoinGroups(s)
    \/ \E u \in Users, token \in Tokens : RestGetMe(u, token)
    \/ \E u \in Users : VerifyEmail(u)
    \/ \E u \in Users : RestLogin(u)

SpecAuth == InitAuth /\ [][NextAuth]_vars

\* ------------------------------------------------------------------------
\* Properties of the send handlers (SpecSend).
\* ------------------------------------------------------------------------
Quiet == \A p \in Procs : ~InFlight(p)

\* the messages of room r that user u did not send
SentByOthers(r, u) == {i \in MsgIds : messages[i].room = r /\ messages[i].sender # u}

\* C1: a send that is alone on its room raises unreadCount by exactly 1 for
\* every member other than the sender and leaves the sender's count as it
\* was, at the step that saves the room document.
C1_SingleSendIncrements ==
    [][\A p \in Procs :
          (handlers[p].pc = "saveRoom" /\ handlers'[p].pc # "saveRoom"
             /\ handlers[p].alone)
          => \A u \in rooms[handlers[p].room].members :
                GetCount(rooms'[handlers[p].room].unreadCount, u)
                  = GetCount(rooms[handlers[p].room].unreadCount, u)
                      + (IF u = handlers[p].user THEN 0 ELSE 1)]_vars

\* a send alone on the group has saved the room: every other member has one
\* unread message, the sender none
C1_Witness ==
    \E p \in Procs :
        /\ handlers[p].pc \in {"emit", "notify"}
        /\ handlers[p].alone
        /\ handlers[p].room = "g1"
        /\ \A u \in rooms["g1"].members :
              GetCount(rooms["g1"].unreadCount, u) = (IF u = handlers[p].user THEN 0 ELSE 1)

\* C2: once all sends have completed, every member's unreadCount equals the
\* number of messages of the room sent by the others (no increment is lost),
\* for rooms whose messages come from distinct senders.
C2_NoLostIncrement ==
    Quiet =>
      \A r \in RoomIds :
         (\A i, j \in MsgIds :
             (i # j /\ messages[i].room = r /\ messages[j].room = r)
                => messages[i].sender # messages[j].sender)
         => \A u \in rooms[r].members :
               GetCount(rooms[r].unreadCount, u) = Cardinality(SentByOthers(r, u))

\* C3: every connection receives the message:new events of a room in the
\* order in which the messages were persisted.
C3_DeliveryInPersistedOrder ==
    \A s \in Sockets :
       \A i, j \in 1..Len(msgNew[s]) :
          (i < j /\ messages[msgNew[s][i]].room = messages[msgNew[s][j]].room)
             => msgNew[s][i] < msgNew[s][j]

\* ------------------------------------------------------------------------
\* Properties of the mark-read handlers (SpecRead).
\* ------------------------------------------------------------------------

\* C4: marking read is idempotent: in every reachable store, for every reader
\* and every set of message ids, applying the mark-read update twice gives the
\* readBy arrays that applying it once gives; and a mark-read request is never
\* answered with a failure (the only rejection is the REST request that
\* carries no messageIds array).
C4_MarkReadIdempotent ==
    /\ \A u \in Users, ids \in SUBSET MsgIds :
          UpdateManyRead(UpdateManyRead(messages, u, ids), u, ids)
             = UpdateManyRead(messages, u, ids)
    /\ reply.kind = "read" => reply.outcome \in {"ok", "silent"}
    /\ reply.kind = "restRead" => reply.outcome \in {"ok", "invalid"}

\* a mark-read has been applied and answered: a message is read by someone
\* other than its sender
C4_Witness ==
    /\ reply.kind \in {"read", "restRead"} /\ reply.outcome = "ok"
    /\ \E i \in MsgIds : Len(messages[i].readBy) = 2

\* C5: mark-reads of the same reader that overlap in time and in message ids
\* leave the reader exactly once in readBy of every message they name, no
\* readBy ever holds a user twice, and at the completion of each the reader's
\* unreadCount of the room is 0.
C5_ConcurrentMarkRead ==
    /\ [](\A i \in MsgIds, u \in Users : Occurrences(messages[i].readBy, u) <= 1)
    /\ [](\A p \in Procs :
             handlers[p].pc = "zero"
             => \A i \in handlers[p].ids :
                   Occurrences(messages[i].readBy, handlers[p].user) = 1)
    /\ [][\A p \in Procs :
             (handlers[p].pc = "zero" /\ handlers'[p].pc = "idle")
             => /\ handlers[p].user \in DOMAIN rooms'[handlers[p].room].unreadCount
                /\ rooms'[handlers[p].room].unreadCount[handlers[p].user] = 0]_vars

\* two mark-reads of u2 on the conversation are in flight together, both have
\* run their updateMany, and they share a message id
C5_Witness ==
    /\ \A p \in Procs : handlers[p].pc = "zero" /\ handlers[p].user = "u2"
                         /\ handlers[p].room = "c1"
    /\ handlers[1].ids \cap handlers[2].ids # {}
    /\ handlers[1].ids # handlers[2].ids
    /\ \A i \in handlers[1].ids \cup handlers[2].ids :
          Occurrences(messages[i].readBy, "u2") = 1
    /\ GetCount(rooms["c1"].unreadCount, "u2") > 0

\* ------------------------------------------------------------------------
\* Properties of connections and presence (SpecConn, SpecPresence).
\* ------------------------------------------------------------------------
HandlersIdle ==
    \A s \in Sockets :
        /\ connPc[s] \in {"none", "ready"}
        /\ discPc[s] \in {"none", "done", "lost"}

\* C6: whenever no connect or disconnect handler is in flight, the status
\* that status:get reports for a user is offline if and only if the registry
\* holds no live connection of the user.
C6_OfflineIffNoConnection ==
    HandlersIdle =>
      \A u \in Users :
         (StatusList(Users)[u] = "offline")
            <=> ({s \in userSockets[u] : Live(s)} = {})

\* the number of user:status events with these fields
StatusEvents(to, about, st, s, kind) ==
    CopiesIn([to |-> to, about |-> about, status |-> st, by |-> s, kind |-> kind],
             statusEmits)

\* C7: the handler of a connection admitted while its user had no live
\* connection sets the user's status to online, and emits exactly one
\* user:status online event to each friend, which each live connection of the
\* friend receives once.
C7_FirstAdmitOnline ==
    /\ [][\A s \in firstAdmit :
             (connPc[s] = "setOnline" /\ connPc'[s] = "friends")
             => status'[Owner(s)] = "online"]_vars
    /\ [](\A s \in firstAdmit :
             connPc[s] \in {"convs", "groups", "ready"}
             => /\ \A f \in Friends(Owner(s)) :
                      StatusEvents(f, Owner(s), "online", s, "connect") = 1
                /\ \A t \in Sockets :
                      /\ StatusEvents(t, Owner(s), "online", s, "connect") <= 1
                      /\ Owner(t) \notin Friends(Owner(s))
                            => StatusEvents(t, Owner(s), "online", s, "connect") = 0)

\* u1's first connection is admitted while its friend u2 is connected: u1 is
\* online and u2's connection has received the one user:status event
C7_Witness ==
    \E s \in firstAdmit :
        /\ Owner(s) = "u1" /\ connPc[s] = "ready"
        /\ status["u1"] = "online"
        /\ StatusEvents("u2", "u1", "online", s, "connect") = 1
        /\ StatusEvents("s3", "u1", "online", s, "connect") = 1

\* C8: once all connect and disconnect handlers have completed, a user's
\* status is offline exactly when the registry has no connection of the user.
C8_OfflineIffRegistryEmpty ==
    HandlersIdle =>
      \A u \in Users : (status[u] = "offline") <=> (userSockets[u] = {})

\* C9: the registry holds only live connections.
C9_RegistryOnlyLive ==
    \A u \in Users : \A s \in userSockets[u] : Live(s)

\* ------------------------------------------------------------------------
\* A message sent to a user without a connection (SpecOffline).
\* ------------------------------------------------------------------------

\* the messages of room r whose send handler has returned
Completed(r) ==
    {i \in MsgIds : messages[i].room = r /\ \A p \in Procs : handlers[p].msg # i}

\* C10: for every message sent to a room of u2 while u2 has no connection:
\* the message is persisted with its room; once its handler has returned
\* there is exactly one notification for u2 and u2's unreadCount counts it,
\* also after u2 has connected; and no connection of u2 ever receives a
\* message:new event for it.
C10_OfflineRecipient ==
    /\ \A r \in RoomIds :
          /\ \A i \in Completed(r) :
                CopiesIn([recipient |-> "u2", msg |-> i], notifications) = 1
          /\ GetCount(rooms[r].unreadCount, "u2") >= Cardinality(Completed(r))
          /\ (\A p \in Procs : ~InFlight(p))
                => GetCount(rooms[r].unreadCount, "u2") = Cardinality(Completed(r))
    /\ \A t \in Sockets : Owner(t) = "u2" => msgNew[t] = <<>>

\* u1 has sent one message to the conversation, then u2 has connected and
\* joined its rooms: u2 has received no message:new, its unreadCount is 1
C10_Witness ==
    /\ Len(messages) = 1 /\ messages[1].room = "c1" /\ messages[1].sender = "u1"
    /\ \A p \in Procs : ~InFlight(p)
    /\ Live("s3") /\ connPc["s3"] = "ready" /\ "c1" \in sockRooms["s3"]
    /\ msgNew["s3"] = <<>>
    /\ msgNew["s1"] = <<1>>
    /\ GetCount(rooms["c1"].unreadCount, "u2") = 1
    /\ CopiesIn([recipient |-> "u2", msg |-> 1], notifications) = 1

\* ------------------------------------------------------------------------
\* Properties of group management (SpecGroup).
\* ------------------------------------------------------------------------

\* C11: a leaveGroup by the only admin of a group that has another member,
\* run with no other handler on the group, succeeds: it is answered ok, the
\* leaver is in neither members nor admins afterwards, another member is
\* admin and the recorded creator, and the group is active; whether or not
\* the leaver was the recorded creator.
C11_OnlyAdminLeaves ==
    [][\A p \in Procs :
          (/\ handlers[p].kind = "leaveGroup"
           /\ handlers[p].pc = "saveGroup" /\ handlers'[p].pc = "idle"
           /\ handlers[p].alone
           /\ handlers[p].snap.base.admins = {handlers[p].user}
           /\ Cardinality(handlers[p].snap.base.members) > 1)
          => /\ reply'.outcome = "ok"
             /\ handlers[p].user \notin rooms'[handlers[p].room].members
             /\ handlers[p].user \notin rooms'[handlers[p].room].admins
             /\ rooms'[handlers[p].room].admins # {}
             /\ rooms'[handlers[p].room].admins \subseteq rooms'[handlers[p].room].members
             /\ rooms'[handlers[p].room].creator \in rooms'[handlers[p].room].admins
             /\ rooms'[handlers[p].room].isActive]_vars

\* C12: every stored group has at least one admin.
C12_GroupHasAdmin == \A g \in Groups : rooms[g].admins # {}

\* the last member's leaveGroup was rejected by the save, after the admins
\* of the group had changed twice
C12_Witness ==
    /\ reply.kind = "leaveGroup" /\ reply.outcome = "failed"
    /\ \A p \in Procs : ~InFlight(p)
    /\ rooms["g1"].v = 2
    /\ Cardinality(rooms["g1"].members) = 1
    /\ rooms["g1"].admins = rooms["g1"].members
    /\ rooms["g1"].creator \notin rooms["g1"].members

\* ------------------------------------------------------------------------
\* Properties of conversations (SpecConversation).
\* ------------------------------------------------------------------------

\* C13: every stored conversation has exactly two participants: its
\* participants array has two entries and they are two users.
C13_TwoParticipants ==
    \A c \in ConvIds :
        /\ Len(rooms[c].participants) = 2
        /\ Cardinality(rooms[c].members) = 2

\* C14: no two active conversations have the same pair of users.
C14_OneConversationPerPair ==
    \A c, d \in ConvIds :
        (c # d /\ rooms[c].isActive /\ rooms[d].isActive)
        => rooms[c].members # rooms[d].members

\* ------------------------------------------------------------------------
\* Rejected sends (SpecSend, SpecOutsider).
\* ------------------------------------------------------------------------

\* C15: every persisted message references one stored room; a REST send
\* that names both a conversation and a group, or neither, is answered
\* "invalid", and the step that answers "invalid" to a send persists no
\* message and starts no handler that could.
C15_ExactlyOneRoom ==
    /\ [](\A i \in MsgIds : messages[i].room \in RoomIds)
    /\ [](\A u \in Users, cid \in Convs \cup {NoRoom}, gid \in Groups \cup {NoRoom} :
             ((cid = NoRoom) = (gid = NoRoom))
             => RestSendCheck(u, cid, gid, TRUE) = "invalid")
    /\ [][(reply' # reply /\ reply'.kind \in {"rest", "private", "group"}
              /\ reply'.outcome = "invalid")
          => (messages' = messages /\ handlers' = handlers)]_vars

\* a REST send was answered "invalid" and the messages persisted before it
\* are there
C15_Witness ==
    /\ reply.kind = "rest" /\ reply.outcome = "invalid"
    /\ \A p \in Procs : ~InFlight(p)
    /\ Len(messages) = 1

\* C16: a send by a user who is not a participant / member of the room is
\* answered "forbidden"; the step that answers it changes no message, room or
\* notification, delivers no message:new, starts no handler, and its error
\* event goes to the sending connection alone; no stored message has a sender
\* outside its room.
C16_OutsiderRejected ==
    /\ [](\A r \in RoomIds : \A u \in Users \ rooms[r].members :
             /\ SocketSendCheck(u, IF r \in Convs THEN "private" ELSE "group", r, TRUE)
                   = "forbidden"
             /\ RestSendCheck(u, IF r \in Convs THEN r ELSE NoRoom,
                                 IF r \in Groups THEN r ELSE NoRoom, TRUE) = "forbidden")
    /\ [](\A i \in MsgIds : messages[i].sender \in rooms[messages[i].room].members)
    /\ [][(reply' # reply /\ reply'.kind \in {"rest", "private", "group"}
              /\ reply'.outcome = "forbidden")
          => /\ messages' = messages /\ rooms' = rooms
             /\ notifications' = notifications
             /\ msgNew' = msgNew /\ handlers' = handlers
             /\ reply'.to = {}
             /\ reply'.errors = (IF reply'.kind = "rest" THEN {} ELSE {reply'.by})]_vars

\* u2's connection has sent message:group to the group u2 is no member of
\* and got the error, while a message of a member is stored
C16_Witness ==
    /\ reply.kind = "group" /\ reply.outcome = "forbidden"
    /\ reply.by = "s3" /\ reply.errors = {"s3"}
    /\ "u2" \notin rooms["g1"].members
    /\ Len(messages) = 1 /\ messages[1].room = "g1"
    /\ msgNew["s3"] = <<>>

\* ------------------------------------------------------------------------
\* Events back to the connections (SpecEvents, SpecRead, SpecTyping).
\* ------------------------------------------------------------------------

\* C17: every socket event the server rejects or does not act on is answered
\* with exactly one error event, to the connection that sent it.
C17_RejectedEventGetsError ==
    (reply.by \in Sockets /\ reply.outcome # "ok") => reply.errors = {reply.by}

\* C18: the message:read receipt of a mark-read reaches exactly the live
\* connections subscribed to the room that are not connections of the reader.
C18_ReceiptNotToReader ==
    [][(reply' # reply /\ reply'.kind = "read" /\ reply'.room # NoRoom)
       => reply'.to = {t \in InRoom(reply'.room) : Owner(t) # Owner(reply'.by)}]_vars

\* C19: the typing:update of a typing:start or typing:stop reaches exactly
\* the live connections subscribed to the room that are not connections of
\* the user who typed.
C19_TypingNotToTypist ==
    [][(reply' # reply /\ reply'.kind \in {"typing:start", "typing:stop"}
           /\ reply'.room # NoRoom)
       => reply'.to = {t \in InRoom(reply'.room) : Owner(t) # Owner(reply'.by)}]_vars

\* ------------------------------------------------------------------------
\* A notification that cannot be created (SpecNotifyFail).
\* ------------------------------------------------------------------------

\* C20: when a send handler ends without having created the notification of
\* every recipient, the send is still answered as a success, no error event
\* reaches the sender, and the message persisted and delivered stays.
C20_NotificationFailureHidden ==
    [][\A p \in Procs :
          (/\ handlers[p].pc = "notify" /\ handlers'[p].pc = "idle"
           /\ notifications' # notifications (+) NewNotifications(handlers[p]))
          => /\ reply'.outcome = "ok"
             /\ reply'.errors = {}
             /\ messages' = messages
             /\ msgNew' = msgNew]_vars

\* C21: when the update of the room (lastMessage and unread counters) fails
\* after the message was created, the update is tried again before an error
\* is surfaced: no handler ends with an error at the step of its first attempt
\* to save the room.
C21_RoomUpdateRetried ==
    [][\A p \in Procs :
          (handlers[p].pc = "saveRoom" /\ handlers'[p].pc = "idle")
             => reply'.outcome # "failed"]_vars

\* C22: every persisted message is delivered as message:new to every live
\* connection subscribed to its room, whether it was sent over the socket or
\* through REST sendMessage, and no message:new names a message that was not
\* persisted.  Every connection stays live and subscribed here, so once the
\* handler of a message has returned each connection in the room has received
\* the message.
C22_PersistedIsDelivered ==
    /\ \A r \in RoomIds :
          \A i \in Completed(r) :
             \A t \in InRoom(r) : Includes(msgNew[t], i)
    /\ \A t \in Sockets :
          \A k \in 1..Len(msgNew[t]) : msgNew[t][k] \in MsgIds

\* C23: a live connection of a user who became a member of a room is
\* subscribed to that room, so the messages sent to the room afterwards reach
\* it without a reconnect: at the step that emits message:new for a message,
\* every live connection of every current member of the room receives it.
C23_NewMemberReceives ==
    [][\A p \in Procs :
          (handlers[p].pc = "emit" /\ handlers'[p].pc = "notify")
             => \A t \in Sockets :
                   (Live(t) /\ Owner(t) \in rooms[handlers[p].room].members)
                      => msgNew'[t] = Append(msgNew[t], handlers[p].msg)]_vars

\* C24: an explicit status change (socket status:change, REST updateStatus,
\* REST updateProfile) for a user who has no live connection is rejected and
\* leaves that user's status and lastSeen as they were.
C24_NoConnectionNoStatusChange ==
    [][(nStatusOps' # nStatusOps /\ reply'.kind \in {"status", "restStatus", "profile"})
          => \A u \in Users :
                (~ \E t \in Sockets : Owner(t) = u /\ Live(t))
                   => status'[u] = status[u] /\ lastSeen'[u] = lastSeen[u]]_vars

\* C25: presence:ping changes only the lastSeen of the pinging user: that
\* user's status, every other user's record, the connection registry, the
\* subscriptions and the rooms stay as they were, and no event is emitted.
C25_PingOnlyLastSeen ==
    [][\A u \in Users :
          (lastSeen'[u] = "presence:ping" /\ lastSeen[u] # "presence:ping")
             => /\ \E s \in Sockets : Owner(s) = u /\ Live(s)
                /\ \A v \in Users \ {u} : lastSeen'[v] = lastSeen[v]
                /\ status' = status
                /\ userSockets' = userSockets
                /\ sockRooms' = sockRooms
                /\ sockState' = sockState
                /\ storeVars' = storeVars
                /\ statusEmits' = statusEmits
                /\ msgNew' = msgNew
                /\ reply' = reply]_vars

\* a user who is away has pinged and is still away
C25_Witness ==
    /\ lastSeen["u1"] = "presence:ping"
    /\ status["u1"] = "away"
    /\ lastSeen["u2"] = "connection"

\* C26: GET /api/messages by a participant of a room, with the room's type
\* and id given as query parameters, succeeds and sets that user's
\* unreadCount for the room to 0.
C26_GetMessagesSucceeds ==
    [][\A u \in Users, r \in RoomIds :
          (u \in rooms[r].members /\ RestGetMessages(u, RoomKind(r), r))
             => /\ reply'.outcome = "ok"
                /\ GetCount(rooms'[r].unreadCount, u) = 0]_vars

\* C27: a send without content is rejected as a validation failure and
\* persists nothing: the REST request is answered with the validation error,
\* the socket event gets exactly one error event on the sending connection,
\* and no message, room update, notification or handler comes of it.
C27_NoContentRejected ==
    [][/\ \A p \in Procs, u \in Users, cid \in Convs \cup {NoRoom},
             gid \in Groups \cup {NoRoom} :
             RestSend(p, u, cid, gid, FALSE)
                => /\ reply'.kind = "rest" /\ reply'.outcome = "invalid"
                   /\ storeVars' = storeVars /\ handlers' = handlers
                   /\ msgNew' = msgNew
       /\ \A p \in Procs, s \in Sockets, k \in {"private", "group"}, r \in RoomRefs :
             SocketSend(p, s, k, r, FALSE)
                => /\ reply'.outcome = "invalid" /\ reply'.errors = {s}
                   /\ storeVars' = storeVars /\ handlers' = handlers
                   /\ msgNew' = msgNew]_vars

\* a REST send that named exactly one room was rejected as invalid (so for
\* its missing content), after a message had been sent
C27_Witness ==
    /\ reply.outcome = "invalid"
    /\ reply.kind = "rest"
    /\ Len(messages) = 1
    /\ \A p \in Procs : ~InFlight(p)

\* C28: only its sender can delete a message, and a deletion is final: a
\* deleted message has the placeholder content and no attachments and is
\* never restored; a message becomes deleted only by a delete request of its
\* sender; a delete request of another user is rejected and leaves every
\* message as it was.
C28_OnlySenderDeletes ==
    /\ [](\A i \in MsgIds :
             messages[i].isDeleted
                => messages[i].content = Placeholder /\ messages[i].attachments = <<>>)
    /\ [][\A i \in MsgIds :
             /\ messages[i].isDeleted => messages'[i].isDeleted
             /\ (messages'[i].isDeleted /\ ~messages[i].isDeleted)
                   => \E p \in Procs :
                         /\ handlers[p].kind = "delete"
                         /\ handlers[p].snap.id = i
                         /\ handlers[p].user = messages[i].sender]_vars
    /\ [][\A p \in Procs, u \in Users, i \in MsgIds :
             (u # messages[i].sender /\ RestDelete(p, u, i))
                => /\ reply'.kind = "delete" /\ reply'.outcome = "forbidden"
                   /\ messages' = messages
                   /\ handlers' = handlers]_vars

\* the message with the attachment is deleted, it had been read by u2, and
\* the delete request of another user has just been rejected
C28_Witness ==
    /\ messages[1].isDeleted
    /\ messages[1].attachments = <<>>
    /\ Includes(messages[1].readBy, "u2")
    /\ reply.kind = "delete" /\ reply.outcome = "forbidden"

\* C29: when no send is in flight, lastMessage of every room refers to the
\* message of that room that was persisted last (0 when the room has none).
C29_LastMessageIsNewest ==
    Quiet =>
       \A r \in RoomIds :
          LET inRoom == {i \in MsgIds : messages[i].room = r}
          IN  rooms[r].lastMessage =
                 IF inRoom = {} THEN 0
                 ELSE CHOOSE i \in inRoom : \A j \in inRoom : j <= i

\* C30: whenever no operation is in flight, unreadCount[u] of a room equals
\* the number of messages of that room whose readBy does not hold u, for
\* every current member u of the room.
C30_UnreadCountsUnreadMessages ==
    Quiet =>
       \A r \in RoomIds :
          \A u \in rooms[r].members :
             GetCount(rooms[r].unreadCount, u) =
                Cardinality({i \in MsgIds :
                               messages[i].room = r /\ ~Includes(messages[i].readBy, u)})

\* C31: readBy of every message holds the sender from the moment the message
\* is created, and only grows: no step takes a user out of readBy.
C31_ReadByGrows ==
    /\ [](\A i \in MsgIds : Includes(messages[i].readBy, messages[i].sender))
    /\ [][\A i \in MsgIds :
             \A u \in Users :
                Includes(messages[i].readBy, u) => Includes(messages'[i].readBy, u)]_vars

\* a message whose readBy holds its sender first and two readers after it
C31_Witness ==
    \E i \in MsgIds :
       /\ Len(messages[i].readBy) = 3
       /\ messages[i].readBy[1] = messages[i].sender

\* C32: the keys of a room's unreadCount map are users who are or once were
\* participants / members of the room (no membership changes here, so: who
\* are members); in particular a message:read event that names a room the
\* reader does not belong to creates no entry for the reader.
C32_UnreadKeysAreMembers ==
    \A r \in RoomIds : DOMAIN rooms[r].unreadCount \subseteq rooms[r].members

\* C35: a typing:update or message:read event is relayed to a room, and readBy
\* of a message is extended by a user, only when that user is a participant /
\* member of the room: an event about a room the user does not belong to
\* reaches no connection and changes no message.
C35_OnlyMembersRelay ==
    [][/\ (reply' # reply /\ reply'.kind \in {"typing:start", "typing:stop", "read"}
             /\ reply'.room # NoRoom)
          => (Owner(reply'.by) \in rooms[reply'.room].members \/ reply'.to = {})
       /\ \A i \in MsgIds :
             \A u \in Users :
                (Includes(messages'[i].readBy, u) /\ ~Includes(messages[i].readBy, u))
                   => u \in rooms[messages[i].room].members]_vars

\* C33: a connection admitted while its user already has a live connection
\* causes no presence transition: while another connection of the user is
\* live and set up, the connection handler of the new one leaves the user's
\* status as it is and announces no user:status to the friends.
C33_FurtherConnectionQuiet ==
    [][\A s \in Sockets \ firstAdmit :
          (\E t \in Sockets \ {s} :
              Owner(t) = Owner(s) /\ Live(t) /\ connPc[t] = "ready")
             => /\ (connPc[s] = "setOnline" /\ connPc'[s] = "friends")
                      => status'[Owner(s)] = status[Owner(s)]
                /\ (connPc[s] = "friends" /\ connPc'[s] = "convs")
                      => statusEmits' = statusEmits]_vars

\* C34: after a user was removed from a group or left it, no live connection
\* of that user receives events of the group any more: every connection that
\* receives a message:new of a room, or a typing:update of a room, belongs to
\* a current member of the room.
C34_FormerMemberReceivesNothing ==
    [][/\ \A p \in Procs :
             (handlers[p].pc = "emit" /\ handlers'[p].pc = "notify")
                => \A t \in Sockets :
                      msgNew'[t] # msgNew[t]
                         => Owner(t) \in rooms[handlers[p].room].members
       /\ (reply' # reply /\ reply'.kind \in {"typing:start", "typing:stop"}
             /\ reply'.room # NoRoom)
          => \A t \in reply'.to : Owner(t) \in rooms[reply'.room].members]_vars

\* C36: in every stored group the admins are members, whatever the order and
\* interleaving of makeAdmin, removeAdmin, removeMember, addMembers and
\* leaveGroup requests.
C36_AdminsAreMembers ==
    \A g \in Groups : rooms[g].admins \subseteq rooms[g].members

\* C37: the recorded creator of an active group is a current member of it; in
\* particular a creator who leaves while other admins remain does not stay
\* the recorded creator.
C37_CreatorIsMember ==
    \A g \in Groups : rooms[g].isActive => rooms[g].creator \in rooms[g].members

\* C38: when the last remaining member of a group leaves it (leaveGroup) or
\* removes itself (removeMember), the request succeeds and the group is
\* stored with no members and isActive = FALSE.
C38_LastMemberLeaves ==
    [][\A p \in Procs :
          (/\ handlers[p].pc = "saveGroup"
           /\ handlers[p].kind \in {"leaveGroup", "removeMember"}
           /\ handlers[p].snap.base.members = {handlers[p].user}
           /\ handlers[p].snap.doc.members = {}
           /\ handlers'[p].pc = "idle")
             => /\ reply'.outcome = "ok"
                /\ rooms'[handlers[p].room].members = {}
                /\ ~rooms'[handlers[p].room].isActive]_vars

\* C39: no message is persisted into a room that has been soft-deleted: once
\* isActive is FALSE a send to the room is not accepted, and the room's
\* lastMessage and unread counters no longer change.
C39_NoSendToDeletedRoom ==
    [][/\ \A p \in Procs :
             (handlers[p].pc = "idle" /\ handlers'[p].pc = "create")
                => rooms[handlers'[p].room].isActive
       /\ \A p \in Procs :
             (handlers[p].pc = "create" /\ messages' # messages)
                => rooms[handlers[p].room].isActive
       /\ \A r \in RoomIds :
             ~rooms[r].isActive
                => /\ rooms'[r].lastMessage = rooms[r].lastMessage
                   /\ rooms'[r].unreadCount = rooms[r].unreadCount]_vars

====
